---------------------------- MODULE Spec2Model ----------------------------
(***************************************************************************)
(* A model of sailor.py: a curses widget toolkit.  The state is the        *)
(* control tree (kind, kids), the per-widget state (wst), the App's layer  *)
(* stack and exit flag, the last painted frame and the last dispatched     *)
(* key event.  One step of the run loop (render, getch, dispatch_event)    *)
(* is one action; every on_event handler is an operator on a record that   *)
(* carries the App, the widgets and the Event through the bubbling.        *)
(***************************************************************************)
EXTENDS Integers, Sequences, FiniteSets, TLC

VARIABLES
  kind,     \* control id -> class name
  kids,     \* control id -> children(): sequence of control ids
  wst,      \* control id -> the widget's own fields (stateful widgets only)
  layers,   \* App.layers: sequence of [root, focused]
  exit,     \* App.exit
  pc,       \* App.run: "run" inside the while loop, "done" after it
  screen,   \* roots painted by the last App.update(), bottom to top
  ev,       \* the Event of the last dispatch_event: key, propagating, log
  layout    \* a Horizontal view being measured and painted (<<>>: none)

vars == <<kind, kids, wst, layers, exit, pc, screen, ev, layout>>

(***************************************************************************)
(* Bounds of the model.                                                    *)
(***************************************************************************)
MaxNodes == 2      \* controls in the trees of Spec
NavNodes == 4      \* controls in the trees of SpecNav
MaxLen == 3        \* longest Edit text in SpecEdit
TreeLen == 1       \* longest Edit text inside the trees of Spec
NumChars == 2      \* printable characters the user may type in SpecEdit
MaxChoices == 4    \* longest choice list in SpecList and SpecPopup
MaxHeight == 3     \* tallest window of a SelectList in SpecList
ComboChoices == 2  \* choices of each Combo inside a tree
MaxDay == 7        \* dates are day numbers 0..MaxDay
MaxViews == 3      \* child views of the Horizontal in SpecLayout
MaxText == 1       \* longest text of a Display in SpecLayout
MaxMargin == 1     \* largest margin of the Horizontal in SpecLayout
MaxRect == 3       \* widest Rect handed to the Horizontal in SpecLayout

(***************************************************************************)
(* Key codes.                                                              *)
(***************************************************************************)
CTRL_A == 1
CTRL_E == 5
ALT_BS == 127
ALT_ENTER == 10
SHIFT_TAB == 353
TAB == 9
ESC == 27
DEL == 127
KEY_DOWN == 258
KEY_UP == 259
KEY_LEFT == 260
KEY_RIGHT == 261
KEY_BACKSPACE == 263
KEY_ENTER == 343
KEY_T == 116

\* Days added by datetime.timedelta(weeks=1).
WeekDays == 7
\* SelectList's default window height.
DefaultHeight == 10

\* Python's None, the App object; Layer i of App.layers is the object -i.
None == -1000
AppId == 0

LayerId(i) == 0 - i
IsLayer(o) == o < 0 /\ o # None
IsControl(o) == o > 0

\* The printable characters typed in a model with n of them: 't' first.
Chars(n) == KEY_T .. (KEY_T + n - 1)

NavKeys == {KEY_UP, KEY_DOWN, KEY_LEFT, KEY_RIGHT, TAB, SHIFT_TAB,
            KEY_ENTER, ALT_ENTER, ESC}
EditKeys == {CTRL_A, CTRL_E, KEY_BACKSPACE, ALT_BS}
Days == 0 .. MaxDay

is_enter(key) == key \in {KEY_ENTER, ALT_ENTER}

Max(a, b) == IF a >= b THEN a ELSE b
Min(a, b) == IF a <= b THEN a ELSE b

Reverse(seq) == [i \in 1 .. Len(seq) |-> seq[Len(seq) + 1 - i]]

\* list.index(x): the first position of x (1-based), 0 when absent.
RECURSIVE IndexFrom(_, _, _)
IndexFrom(seq, x, i) ==
  IF i > Len(seq) THEN 0
  ELSE IF seq[i] = x THEN i
  ELSE IndexFrom(seq, x, i + 1)

Index(seq, x) == IndexFrom(seq, x, 1)

InSeq(seq, x) == \E i \in 1 .. Len(seq) : seq[i] = x

(***************************************************************************)
(* The record s threaded through a dispatch carries the App (layers, exit), *)
(* the controls (kind, kids, wst) and the Event (key, what, propagating,   *)
(* last), plus now, the clock read by datetime.now(), and log, the calls   *)
(* made so far.  Only 'key' events are carried: the 'blur' and 'focus'     *)
(* events of Layer.focus have key None and every handler ignores them.     *)
(***************************************************************************)
Note(s, op, arg) == [s EXCEPT !.log = Append(@, <<op, arg>>)]

\* Event.stop
Stop(s) == Note([s EXCEPT !.propagating = FALSE], "stop", 0)

\* children() of the App, of a Layer and of each Control class.
Children(s, o) ==
  IF o = AppId THEN [i \in 1 .. Len(s.layers) |-> LayerId(i)]
  ELSE IF IsLayer(o) THEN <<s.layers[0 - o].root>>
  ELSE s.kids[o]

FocusableKinds == {"SelectList", "SelectDate", "Combo", "DateCombo", "Edit"}

\* can_focus of a Layer (False) and of each Control class.
CanFocus(s, o) == IsControl(o) /\ s.kind[o] \in FocusableKinds

\* object_tree(root): the (parent, child) pairs in the order they are yielded.
RECURSIVE ObjectTreeLoop(_, _, _)
ObjectTreeLoop(s, stack, out) ==
  IF stack = <<>> THEN out
  ELSE LET parent == stack[Len(stack)]
           children == Children(s, parent)
           yielded == [i \in 1 .. Len(children) |->
                         [parent |-> parent, child |-> children[i]]]
       IN ObjectTreeLoop(s,
                         SubSeq(stack, 1, Len(stack) - 1) \o Reverse(children),
                         out \o yielded)

object_tree(s, root) ==
  ObjectTreeLoop(s, <<root>>, <<[parent |-> None, child |-> root]>>)

\* App.get_parent
RECURSIVE FirstParent(_, _, _)
FirstParent(pairs, ctrl, i) ==
  IF i > Len(pairs) THEN None
  ELSE IF pairs[i].child = ctrl THEN pairs[i].parent
  ELSE FirstParent(pairs, ctrl, i + 1)

get_parent(s, ctrl) == FirstParent(object_tree(s, AppId), ctrl, 1)

\* App.find_ancestor: ctrl or its nearest ancestor that is in the list set.
RECURSIVE find_ancestor(_, _, _)
find_ancestor(s, ctrl, set) ==
  IF ctrl = None THEN None
  ELSE IF InSeq(set, ctrl) THEN ctrl
  ELSE find_ancestor(s, get_parent(s, ctrl), set)

\* App.layer: the position in App.layers of the layer holding ctrl (0: none).
layer(s, ctrl) ==
  LET l == find_ancestor(s, ctrl, Children(s, AppId))
  IN IF l = None THEN 0 ELSE 0 - l

\* Layer.focus finds the control to focus: ctrl itself when it can focus,
\* else the first hit among its children, each searched in the same way.
RECURSIVE FocusTarget(_, _), FocusTargetIn(_, _, _)
FocusTarget(s, ctrl) ==
  IF CanFocus(s, ctrl) THEN ctrl
  ELSE FocusTargetIn(s, Children(s, ctrl), 1)

FocusTargetIn(s, children, i) ==
  IF i > Len(children) THEN None
  ELSE LET t == FocusTarget(s, children[i])
       IN IF t # None THEN t ELSE FocusTargetIn(s, children, i + 1)

\* A Layer.focus that takes ctrl as it is, without the can_focus test and the
\* descent into its children.
LayerFocusShallow(s, li, ctrl) ==
  Note([s EXCEPT !.layers[li].focused = ctrl], "focus", ctrl)

\* Layer.focus(ctrl) on layer li; it returns True iff FocusTarget is not None.
LayerFocus(s, li, ctrl) ==
  LET t == FocusTarget(s, ctrl)
  IN IF t = None THEN s
     ELSE Note([s EXCEPT !.layers[li].focused = t], "focus", t)

\* The first pair of pairs[i..] (stepping by step) whose child can focus.
RECURSIVE FirstFocusable(_, _, _, _)
FirstFocusable(s, pairs, i, step) ==
  IF i < 1 \/ i > Len(pairs) THEN None
  ELSE IF CanFocus(s, pairs[i].child) THEN pairs[i].child
  ELSE FirstFocusable(s, pairs, i + step, step)

\* Layer._focus_first
FocusFirst(s, li) ==
  LET c == FirstFocusable(s, object_tree(s, LayerId(li)), 1, 1)
  IN IF c = None THEN s ELSE LayerFocus(s, li, c)

\* Layer._focus_last
FocusLast(s, li) ==
  LET pairs == object_tree(s, LayerId(li))
      c == FirstFocusable(s, pairs, Len(pairs), 0 - 1)
  IN IF c = None THEN s ELSE LayerFocus(s, li, c)

\* A push_layer whose Layer keeps its root focused, without _focus_first.
push_layer_unfocused(s, control) ==
  Note([s EXCEPT !.layers = Append(@, [root |-> control,
                                       focused |-> control])],
       "push_layer", control)

\* App.push_layer: Layer.__init__ focuses the root, then calls _focus_first.
push_layer(s, control) ==
  LET s1 == [s EXCEPT !.layers = Append(@, [root |-> control,
                                            focused |-> control])]
  IN FocusFirst(Note(s1, "push_layer", control), Len(s1.layers))

\* The controls of the subtree of o.
RECURSIVE Subtree(_, _)
Subtree(s, o) ==
  {o} \cup UNION {Subtree(s, s.kids[o][i]) : i \in 1 .. Len(s.kids[o])}

Restrict(f, S) == [x \in S |-> f[x]]

\* A pop_layer that leaves the stack as it is.
pop_layer_keep(s) ==
  Note(s, "pop_layer", s.layers[Len(s.layers)].root)

\* App.pop_layer.  A popped Popup and its inner control are referenced by
\* nothing afterwards, so they leave the model's heap.
pop_layer(s) ==
  LET top == s.layers[Len(s.layers)]
      gone == IF s.kind[top.root] = "Popup" THEN Subtree(s, top.root) ELSE {}
      s1 == [s EXCEPT !.layers = SubSeq(@, 1, Len(@) - 1),
                      !.kind = Restrict(@, DOMAIN @ \ gone),
                      !.kids = Restrict(@, DOMAIN @ \ gone),
                      !.wst = Restrict(@, DOMAIN @ \ gone)]
  IN Note(s1, "pop_layer", top.root)

(***************************************************************************)
(* The on_event handlers.                                                  *)
(***************************************************************************)

\* The while loop of Panel.on_event and Composite.on_event, at its test with
\* index i (1-based) into self.controls; step is -1 or 1.
RECURSIVE ScanLoop(_, _, _, _)
ScanLoop(s, self, i, step) ==
  LET controls == s.kids[self]
      j == i + step
  IN IF ~(1 <= i /\ i <= Len(controls) /\ s.propagating) THEN s
     ELSE IF 1 <= j /\ j <= Len(controls)
             /\ FocusTarget(s, controls[j]) # None
          THEN ScanLoop(Stop(LayerFocus(s, layer(s, self), controls[j])),
                        self, j, step)
          ELSE ScanLoop(s, self, j, step)

\* A scan that starts over from the first (last) child of the container.
FocusNavRestart(s, self, back) ==
  LET current == find_ancestor(s, s.last, s.kids[self])
  IN IF current = None THEN s
     ELSE ScanLoop(s, self, IF back THEN Len(s.kids[self]) ELSE 1,
                   IF back THEN 0 - 1 ELSE 1)

\* A scan that tries the adjacent child only.
FocusNavAdjacent(s, self, back) ==
  LET controls == s.kids[self]
      current == find_ancestor(s, s.last, controls)
      j == Index(controls, current) + (IF back THEN 0 - 1 ELSE 1)
  IN IF current = None THEN s
     ELSE IF 1 <= j /\ j <= Len(controls) /\ FocusTarget(s, controls[j]) # None
          THEN Stop(LayerFocus(s, layer(s, self), controls[j]))
          ELSE s

\* The body shared by Panel.on_event and Composite.on_event once the key is
\* known to be one of theirs.
FocusNav(s, self, back) ==
  LET current == find_ancestor(s, s.last, s.kids[self])
  IN IF current = None THEN s
     ELSE ScanLoop(s, self, Index(s.kids[self], current),
                   IF back THEN 0 - 1 ELSE 1)

\* Panel.on_event
PanelOnEvent(s, self) ==
  IF s.key \in {KEY_UP, KEY_DOWN, TAB, SHIFT_TAB}
  THEN FocusNav(s, self, s.key \in {KEY_UP, SHIFT_TAB})
  ELSE s

\* Composite.on_event
CompositeOnEvent(s, self) ==
  IF s.key \in {KEY_LEFT, SHIFT_TAB, KEY_RIGHT, TAB}
  THEN FocusNav(s, self, s.key \in {KEY_LEFT, SHIFT_TAB})
  ELSE s

\* SelectList.__init__
SelectListInit(n, index, height) ==
  [n |-> n, index |-> index, height |-> height,
   scroll_offset |-> Max(0, Min(index, n - height))]

\* An Up that scrolls the window to the new index every time.
SelectListUpSnap(s, self) ==
  LET w == s.wst[self]
  IN IF s.key = KEY_UP /\ 0 < w.index
     THEN Stop([s EXCEPT !.wst[self].index = w.index - 1,
                         !.wst[self].scroll_offset = w.index - 1])
     ELSE s

SelectListUp(s, self) ==
  LET w == s.wst[self]
  IN IF s.key = KEY_UP /\ 0 < w.index
     THEN Stop([s EXCEPT !.wst[self].index = w.index - 1,
                         !.wst[self].scroll_offset =
                            Min(w.scroll_offset, w.index - 1)])
     ELSE s

\* A Down that moves the index and leaves the window where it is.
SelectListDownNoScroll(s, self) ==
  LET w == s.wst[self]
  IN IF s.key = KEY_DOWN /\ w.index < w.n - 1
     THEN Stop([s EXCEPT !.wst[self].index = w.index + 1])
     ELSE s

SelectListDown(s, self) ==
  LET w == s.wst[self]
  IN IF s.key = KEY_DOWN /\ w.index < w.n - 1
     THEN Stop([s EXCEPT !.wst[self].index = w.index + 1,
                         !.wst[self].scroll_offset =
                            Max(w.scroll_offset, w.index + 1 - w.height + 1)])
     ELSE s

\* SelectList.on_event: its two ifs in turn.
SelectListOnEvent(s, self) == SelectListDown(SelectListUp(s, self), self)

\* One if of SelectDate.on_event: on key, replace the date and stop.
SelectDateIf(s, self, key, value) ==
  IF s.what = key THEN Stop([s EXCEPT !.wst[self].value = value]) ELSE s

\* A SelectDate.on_event whose Up and Down move by one day.
SelectDateOnEventByDay(s, self) ==
  LET s1 == SelectDateIf(s, self, KEY_T, s.now)
      s2 == SelectDateIf(s1, self, KEY_LEFT, s1.wst[self].value - 1)
      s3 == SelectDateIf(s2, self, KEY_RIGHT, s2.wst[self].value + 1)
      s4 == SelectDateIf(s3, self, KEY_UP, s3.wst[self].value - 1)
  IN SelectDateIf(s4, self, KEY_DOWN, s4.wst[self].value + 1)

\* SelectDate.on_event: its five ifs in turn, each reading the current date.
SelectDateOnEvent(s, self) ==
  LET s1 == SelectDateIf(s, self, KEY_T, s.now)
      s2 == SelectDateIf(s1, self, KEY_LEFT, s1.wst[self].value - 1)
      s3 == SelectDateIf(s2, self, KEY_RIGHT, s2.wst[self].value + 1)
      s4 == SelectDateIf(s3, self, KEY_UP, s3.wst[self].value - WeekDays)
  IN SelectDateIf(s4, self, KEY_DOWN, s4.wst[self].value + WeekDays)

\* A callback that takes the popup's selection whatever success says.
on_popup_close_always(s, owner, success, popup) ==
  LET inner == s.wst[s.kids[popup][1]]
  IN IF s.kind[owner] = "Combo"
     THEN [s EXCEPT !.wst[owner].index = inner.index]
     ELSE [s EXCEPT !.wst[owner].value = inner.value]

\* Combo.on_popup_close and DateCombo.on_popup_close, by the owner's class.
on_popup_close(s, owner, success, popup) ==
  LET inner == s.wst[s.kids[popup][1]]
  IN IF ~success THEN s
     ELSE IF s.kind[owner] = "Combo"
          THEN [s EXCEPT !.wst[owner].index = inner.index]
          ELSE [s EXCEPT !.wst[owner].value = inner.value]

\* One branch of Popup.on_event: self.on_close(accepted, self), then
\* ev.app.pop_layer().
PopupClose(s, self, accepted) ==
  pop_layer(on_popup_close(Note(s, "on_close", IF accepted THEN 1 ELSE 0),
                           s.wst[self].on_close, accepted, self))

\* A Popup.on_event that reports Escape as accepted.
PopupOnEventAccepting(s, self) ==
  LET s1 == IF s.key = ESC THEN PopupClose(s, self, TRUE) ELSE s
  IN IF is_enter(s1.key) THEN PopupClose(s1, self, TRUE) ELSE s1

\* Popup.on_event
PopupOnEvent(s, self) ==
  LET s1 == IF s.key = ESC THEN PopupClose(s, self, FALSE) ELSE s
  IN IF is_enter(s1.key) THEN PopupClose(s1, self, TRUE) ELSE s1

\* Popup(x, y, inner, on_close).show(app) with a fresh Popup and inner
\* control: the two ids after the largest one in use.
ShowPopup(s, owner, innerKind, innerState) ==
  LET top == CHOOSE m \in DOMAIN s.kind : \A o \in DOMAIN s.kind : o <= m
      popup == top + 1
      inner == top + 2
      s1 == [s EXCEPT
               !.kind = (popup :> "Popup") @@ (inner :> innerKind) @@ @,
               !.kids = (popup :> <<inner>>) @@ (inner :> <<>>) @@ @,
               !.wst = (popup :> [on_close |-> owner])
                         @@ (inner :> innerState) @@ @]
  IN push_layer(s1, popup)

\* Combo.on_event
ComboOnEvent(s, self) ==
  IF is_enter(s.key)
  THEN ShowPopup(s, self, "SelectList",
                 SelectListInit(s.wst[self].n, s.wst[self].index,
                                DefaultHeight))
  ELSE s

\* DateCombo.on_event
DateComboOnEvent(s, self) ==
  IF is_enter(s.key)
  THEN ShowPopup(s, self, "SelectDate", [value |-> s.wst[self].value])
  ELSE s

\* A Python slice seq[a:b] of a list (0-based, b exclusive, clamped).
Slice(seq, a, b) == SubSeq(seq, Min(a, Len(seq)) + 1, Min(b, Len(seq)))

EditHome(s, self) ==
  IF s.key = CTRL_A THEN Stop([s EXCEPT !.wst[self].cursor = 0]) ELSE s

EditEnd(s, self) ==
  IF s.key = CTRL_E
  THEN Stop([s EXCEPT !.wst[self].cursor = Len(s.wst[self].value)])
  ELSE s

EditBackspace(s, self) ==
  LET w == s.wst[self]
  IN IF s.key \in {KEY_BACKSPACE, ALT_BS}
     THEN Stop([s EXCEPT
                  !.wst[self].value = Slice(w.value, 0, w.cursor)
                                        \o Slice(w.value, w.cursor, Len(w.value)),
                  !.wst[self].cursor = Max(0, w.cursor - 1)])
     ELSE s

EditDelete(s, self) ==
  LET w == s.wst[self]
  IN IF s.key = DEL
     THEN Stop([s EXCEPT
                  !.wst[self].value = Slice(w.value, 0, w.cursor)
                                        \o Slice(w.value, w.cursor + 1,
                                                 Len(w.value))])
     ELSE s

EditLeft(s, self) ==
  IF s.key = KEY_LEFT /\ s.wst[self].cursor > 0
  THEN Stop([s EXCEPT !.wst[self].cursor = @ - 1])
  ELSE s

\* A Right without the test against len(value).
EditRightUnbounded(s, self) ==
  IF s.key = KEY_RIGHT
  THEN Stop([s EXCEPT !.wst[self].cursor = @ + 1])
  ELSE s

EditRight(s, self) ==
  IF s.key = KEY_RIGHT /\ s.wst[self].cursor < Len(s.wst[self].value)
  THEN Stop([s EXCEPT !.wst[self].cursor = @ + 1])
  ELSE s

\* An Enter branch that leaves the key as it is.
EditEnterKeep(s, self) == s

EditEnter(s, self) ==
  IF is_enter(s.key) THEN [s EXCEPT !.key = TAB] ELSE s

\* An insert that appends the character at the end of the text.
EditInsertAtEnd(s, self) ==
  LET w == s.wst[self]
  IN IF 32 <= s.key /\ s.key < 127
     THEN Stop([s EXCEPT !.wst[self].value = Append(w.value, s.key),
                         !.wst[self].cursor = w.cursor + 1])
     ELSE s

EditInsert(s, self) ==
  LET w == s.wst[self]
  IN IF 32 <= s.key /\ s.key < 127
     THEN Stop([s EXCEPT
                  !.wst[self].value = Slice(w.value, 0, w.cursor) \o <<s.key>>
                                        \o Slice(w.value, w.cursor,
                                                 Len(w.value)),
                  !.wst[self].cursor = w.cursor + 1])
     ELSE s

\* Edit.on_event: its eight ifs in turn.
EditOnEvent(s, self) ==
  EditInsert(EditEnter(EditRight(EditLeft(EditDelete(EditBackspace(
    EditEnd(EditHome(s, self), self), self), self), self), self), self), self)

\* An Escape branch that stops the event and leaves exit alone.
AppEscapeStay(s) ==
  IF s.key = ESC THEN Stop(s) ELSE s

\* The first if of App.on_event.
AppEscape(s) ==
  IF s.key = ESC THEN Stop([s EXCEPT !.exit = TRUE]) ELSE s

AppFocusFirst(s) ==
  IF s.key \in {KEY_DOWN, TAB} THEN FocusFirst(s, Len(s.layers)) ELSE s

AppFocusLast(s) ==
  IF s.key \in {KEY_UP, SHIFT_TAB} THEN FocusLast(s, Len(s.layers)) ELSE s

\* App.on_event
AppOnEvent(s) == AppFocusLast(AppFocusFirst(AppEscape(s)))

\* tgt.on_event(ev) by the class of tgt; Control.on_event and Layer.on_event
\* do nothing.
OnEvent(s, tgt) ==
  IF tgt = AppId THEN AppOnEvent(s)
  ELSE IF IsLayer(tgt) THEN s
  ELSE CASE s.kind[tgt] = "Panel" -> PanelOnEvent(s, tgt)
         [] s.kind[tgt] = "Composite" -> CompositeOnEvent(s, tgt)
         [] s.kind[tgt] = "SelectList" -> SelectListOnEvent(s, tgt)
         [] s.kind[tgt] = "SelectDate" -> SelectDateOnEvent(s, tgt)
         [] s.kind[tgt] = "Popup" -> PopupOnEvent(s, tgt)
         [] s.kind[tgt] = "Combo" -> ComboOnEvent(s, tgt)
         [] s.kind[tgt] = "DateCombo" -> DateComboOnEvent(s, tgt)
         [] s.kind[tgt] = "Edit" -> EditOnEvent(s, tgt)
         [] OTHER -> s

\* The while loop of App.dispatch_event, at its test.
RECURSIVE DispatchLoop(_, _)
DispatchLoop(s, tgt) ==
  IF tgt = None \/ ~s.propagating THEN s
  ELSE LET s1 == OnEvent(Note(s, "on_event", tgt), tgt)
           s2 == [s1 EXCEPT !.last = tgt]
       IN DispatchLoop(s2, get_parent(s2, tgt))

\* A dispatch that calls the target's handler and no parent's.
dispatch_event_once(s) ==
  [OnEvent(Note(s, "on_event", s.target), s.target) EXCEPT !.last = s.target]

\* App.dispatch_event(ev)
dispatch_event(s) == DispatchLoop(s, s.target)

\* The App and its controls as the record the handlers work on.
AppState ==
  [kind |-> kind, kids |-> kids, wst |-> wst, layers |-> layers,
   exit |-> exit, log |-> <<>>]

\* Event('key', c, self.active_layer.focused, self), read at clock now.
Event(c, now) ==
  [kind |-> kind, kids |-> kids, wst |-> wst, layers |-> layers,
   exit |-> exit, log |-> <<>>, key |-> c, what |-> c,
   target |-> layers[Len(layers)].focused, last |-> None,
   propagating |-> TRUE, now |-> now]

(***************************************************************************)
(* The inputs: the control trees handed to App(root) and push_layer.       *)
(* Controls are numbered in document order; p[i] is the parent of i, 0 for *)
(* a root.  Control 1 is the root given to App; any other root is a tree   *)
(* the client may push as a layer.                                         *)
(***************************************************************************)
RECURSIVE AncSelf(_, _)
AncSelf(p, i) == IF i = 0 THEN {} ELSE {i} \cup AncSelf(p, p[i])

RECURSIVE Forests(_)
Forests(n) ==
  IF n = 1 THEN {<<0>>}
  ELSE {Append(p, q) : p \in Forests(n - 1), q \in 0 .. (n - 1)}

\* p numbers its controls in document order.
DocOrder(p) == \A i \in 2 .. Len(p) : p[i] \in {0} \cup AncSelf(p, i - 1)

Roots(p) == {i \in 1 .. Len(p) : p[i] = 0}

RECURSIVE Ascending(_)
Ascending(S) ==
  IF S = {} THEN <<>>
  ELSE LET m == CHOOSE x \in S : \A y \in S : x <= y
       IN <<m>> \o Ascending(S \ {m})

KidsOf(p, o) == Ascending({i \in 1 .. Len(p) : p[i] = o})

\* The classes a control with n children can have: Panel(controls) and
\* Composite(controls) take any list, Labeled(label, control) one control.
\* A family with empty = FALSE leaves out Panel([]) and Composite([]).
ClassesFor(n, F) ==
  F.classes \cap
    (IF n = 0 THEN {"Text", "SelectList", "SelectDate", "Combo", "DateCombo",
                    "Edit"}
                   \cup (IF F.empty THEN {"Panel", "Composite"} ELSE {})
     ELSE IF n = 1 THEN {"Panel", "Composite", "Labeled"}
     ELSE {"Panel", "Composite"})

RECURSIVE KindChoices(_, _, _)
KindChoices(p, F, i) ==
  IF i = 0 THEN {<<>>}
  ELSE {Append(k, c) : k \in KindChoices(p, F, i - 1),
                       c \in ClassesFor(Len(KidsOf(p, i)), F)}

Strings(chars, cap) == UNION {[1 .. l -> chars] : l \in 0 .. cap}

\* The fields each constructor sets, over the inputs of family F.
InitStates(class, F) ==
  CASE class = "Edit" ->
         {[value |-> v, cursor |-> Len(v)] : v \in Strings(F.chars, F.texts)}
    [] class = "Combo" ->
         {[n |-> F.choices, index |-> i] :
            i \in F.indexes \cap (0 .. F.choices - 1)}
    [] class = "SelectList" ->
         {SelectListInit(x[1], x[2], x[3]) :
            x \in {y \in (1 .. F.choices) \X (0 .. F.choices)
                           \X (1 .. F.heights) : y[2] < y[1]}}
    [] class \in {"DateCombo", "SelectDate"} -> {[value |-> d] : d \in F.days}
    [] OTHER -> {}

Stateful == {"Edit", "Combo", "SelectList", "DateCombo", "SelectDate"}

RECURSIVE WstChoices(_, _, _)
WstChoices(k, F, i) ==
  IF i = 0 THEN {<<>>}
  ELSE IF k[i] \in Stateful
       THEN {(i :> w) @@ f : w \in InitStates(k[i], F),
                             f \in WstChoices(k, F, i - 1)}
       ELSE WstChoices(k, F, i - 1)

\* App.__init__(root) over the inputs of family F.
InitFamily(F) ==
  \E n \in 1 .. F.nodes :
    \E p \in {q \in Forests(n) : DocOrder(q) /\ Cardinality(Roots(q)) <= F.roots} :
      \E k \in KindChoices(p, F, n) :
        \E w \in WstChoices(k, F, n) :
          LET s0 == [kind |-> k, kids |-> [o \in 1 .. n |-> KidsOf(p, o)],
                     wst |-> w, layers |-> <<>>, exit |-> FALSE, log |-> <<>>]
          IN /\ kind = k
             /\ kids = s0.kids
             /\ wst = w
             /\ layers = push_layer(s0, 1).layers
             /\ exit = FALSE
             /\ pc = "run"
             /\ screen = <<>>
             /\ ev = [key |-> None, propagating |-> TRUE, log |-> <<>>]
             /\ layout = <<>>

(***************************************************************************)
(* The actions.                                                            *)
(***************************************************************************)

\* The model's caps: texts of at most cap characters, dates within Days.
Bounded(s, cap) ==
  \A o \in DOMAIN s.wst :
    /\ s.kind[o] = "Edit" => Len(s.wst[o].value) <= cap
    /\ s.kind[o] \in {"SelectDate", "DateCombo"} => s.wst[o].value \in Days

\* App.update: every layer is painted, bottom to top.
update == [i \in 1 .. Len(layers) |-> layers[i].root]

\* One iteration of the while loop of App.run: update(), getch() returning
\* c, dispatch_event.
RunIteration(c, now, cap) ==
  /\ pc = "run"
  /\ ~exit
  /\ \E s \in {dispatch_event(Event(c, now))} :
        /\ Bounded(s, cap)
        /\ kind' = s.kind
        /\ kids' = s.kids
        /\ wst' = s.wst
        /\ layers' = s.layers
        /\ exit' = s.exit
        /\ screen' = update
        /\ ev' = [key |-> c, propagating |-> s.propagating, log |-> s.log]
        /\ pc' = pc
        /\ layout' = layout

\* The while test of App.run fails: run returns.
RunExit ==
  /\ pc = "run"
  /\ exit
  /\ pc' = "done"
  /\ UNCHANGED <<kind, kids, wst, layers, exit, screen, ev, layout>>

\* The client calls App.push_layer(r) between two iterations, when no popup
\* is open, with a control tree r that is in no layer yet.
PushLayer(r) ==
  /\ pc = "run"
  /\ ~exit
  /\ r \in DOMAIN kind
  /\ kind[layers[Len(layers)].root] # "Popup"
  /\ get_parent(AppState, r) = None
  /\ \A o \in DOMAIN kids : ~InSeq(kids[o], r)
  /\ layers' = push_layer(AppState, r).layers
  /\ UNCHANGED <<kind, kids, wst, exit, pc, screen, ev, layout>>

(***************************************************************************)
(* The specifications: the same run loop over different families of inputs.*)
(***************************************************************************)
Containers == {"Panel", "Composite", "Labeled"}

\* Trees of containers, texts, edits and combos, and a second tree to push
\* as a layer.  Edits start empty and Combos on their first choice (the
\* default); the user presses navigation keys and types 't'.
TreeFamily ==
  [nodes |-> MaxNodes, roots |-> 2, empty |-> TRUE,
   classes |-> Containers \cup {"Text", "Edit", "Combo"},
   texts |-> 0, chars |-> Chars(1), choices |-> ComboChoices,
   indexes |-> {0}, heights |-> 1, days |-> {}]

Init == InitFamily(TreeFamily)

Next ==
  \/ \E c \in NavKeys \cup Chars(1) : RunIteration(c, 0, TreeLen)
  \/ RunExit
  \/ \E r \in DOMAIN kind : PushLayer(r)

Spec == Init /\ [][Next]_vars

\* Larger trees of containers, texts and empty edits; navigation keys only.
NavFamily ==
  [nodes |-> NavNodes, roots |-> 1, empty |-> FALSE,
   classes |-> Containers \cup {"Text", "Edit"},
   texts |-> 0, chars |-> {}, choices |-> 1, indexes |-> {},
   heights |-> 1, days |-> {}]

InitNav == InitFamily(NavFamily)

NextNav ==
  \/ \E c \in NavKeys : RunIteration(c, 0, 0)
  \/ RunExit

SpecNav == InitNav /\ [][NextNav]_vars

\* A single Edit as the root.
EditFamily ==
  [nodes |-> 1, roots |-> 1, empty |-> FALSE, classes |-> {"Edit"},
   texts |-> MaxLen,
   chars |-> Chars(NumChars), choices |-> 1, indexes |-> {}, heights |-> 1,
   days |-> {}]

InitEdit == InitFamily(EditFamily)

NextEdit ==
  \/ \E c \in NavKeys \cup EditKeys \cup Chars(NumChars) :
       RunIteration(c, 0, MaxLen)
  \/ RunExit

SpecEdit == InitEdit /\ [][NextEdit]_vars

\* A single SelectList as the root.
ListFamily ==
  [nodes |-> 1, roots |-> 1, empty |-> FALSE, classes |-> {"SelectList"},
   texts |-> 0,
   chars |-> {}, choices |-> MaxChoices, indexes |-> {}, heights |-> MaxHeight,
   days |-> {}]

InitList == InitFamily(ListFamily)

NextList ==
  \/ \E c \in NavKeys : RunIteration(c, 0, 0)
  \/ RunExit

SpecList == InitList /\ [][NextList]_vars

\* A single SelectDate as the root.
DateFamily ==
  [nodes |-> 1, roots |-> 1, empty |-> FALSE, classes |-> {"SelectDate"},
   texts |-> 0,
   chars |-> {}, choices |-> 1, indexes |-> {}, heights |-> 1, days |-> Days]

InitDate == InitFamily(DateFamily)

NextDate ==
  \/ \E c \in NavKeys \cup EditKeys \cup {KEY_T} :
       \E now \in IF c = KEY_T THEN Days ELSE {0} : RunIteration(c, now, 0)
  \/ RunExit

SpecDate == InitDate /\ [][NextDate]_vars

\* A single Combo or DateCombo as the root.
PopupFamily ==
  [nodes |-> 1, roots |-> 1, empty |-> FALSE, classes |-> {"Combo", "DateCombo"},
   texts |-> 0, chars |-> {}, choices |-> MaxChoices,
   indexes |-> 0 .. MaxChoices, heights |-> 1, days |-> Days]

InitPopup == InitFamily(PopupFamily)

NextPopup ==
  \/ \E c \in NavKeys \cup {KEY_T} :
       \E now \in IF c = KEY_T THEN Days ELSE {0} : RunIteration(c, now, 0)
  \/ RunExit

SpecPopup == InitPopup /\ [][NextPopup]_vars

\* Trees of Panels, Labeleds, Combos and DateCombos, and a second tree to
\* push as a layer, so that a popup opens over one layer or over two.
\* Combos start on their first choice and DateCombos on day 0.
StackFamily ==
  [nodes |-> MaxNodes, roots |-> 2, empty |-> FALSE,
   classes |-> {"Panel", "Labeled", "Combo", "DateCombo"},
   texts |-> 0, chars |-> {}, choices |-> ComboChoices,
   indexes |-> {0}, heights |-> 1, days |-> {0}]

InitStack == InitFamily(StackFamily)

NextStack ==
  \/ \E c \in NavKeys \cup {KEY_T} : RunIteration(c, 1, 0)
  \/ RunExit
  \/ \E r \in DOMAIN kind : PushLayer(r)

SpecStack == InitStack /\ [][NextStack]_vars

(***************************************************************************)
(* The views.  A Rect is [x, y, w, h]; a child view of the Horizontal is a *)
(* Display (a text of len characters and its min_width) or an HFill, whose *)
(* size is the width of the Rect it is measured in.                        *)
(***************************************************************************)

\* Rect.sub_rect
sub_rect(rect, dx, dy, w, h) == [x |-> rect.x + dx, y |-> rect.y + dy,
                                 w |-> w, h |-> h]

\* Rect.adj_rect
adj_rect(rect, dx, dy, dw, dh) ==
  sub_rect(rect, dx, dy, rect.w - dx - dw, rect.h - dy - dh)

\* Display.size and HFill.size: <<width, height>>.
ViewSize(v, rect) ==
  IF v.class = "Display" THEN <<Max(v.min_width, v.len), 1>>
  ELSE <<rect.w, 1>>

\* The for loop of Horizontal.size, before view i: the sizes measured so far.
RECURSIVE HorizontalSizes(_, _, _, _)
HorizontalSizes(views, rect, i, sizes) ==
  IF i > Len(views) THEN sizes
  ELSE LET size == ViewSize(views[i], rect)
       IN HorizontalSizes(views, adj_rect(rect, size[1], 0, 0, 0), i + 1,
                          Append(sizes, size))

RECURSIVE Sum(_, _)
Sum(seq, i) == IF i > Len(seq) THEN 0 ELSE seq[i] + Sum(seq, i + 1)

RECURSIVE MaxOf(_, _)
MaxOf(seq, i) ==
  IF i = Len(seq) THEN seq[i] ELSE Max(seq[i], MaxOf(seq, i + 1))

\* Horizontal.size: the widths of the children as measured, and the result.
HorizontalSize(h, rect) ==
  LET sizes == HorizontalSizes(h.views, rect, 1, <<>>)
      widths == [i \in 1 .. Len(sizes) |-> sizes[i][1]]
      heights == [i \in 1 .. Len(sizes) |-> sizes[i][2]]
  IN [widths |-> widths,
      size |-> <<Sum(widths, 1) + Max(Len(h.views) - 1, 0) * h.margin,
                 MaxOf(heights, 1)>>]

\* The for loop of Horizontal.disp, before view i: the Rect each child was
\* displayed in so far (View.display keeps it as the child's rect).
RECURSIVE HorizontalDisp(_, _, _, _)
HorizontalDisp(h, rect, i, shown) ==
  IF i > Len(h.views) THEN shown
  ELSE LET dx == ViewSize(h.views[i], rect)[1] + h.margin
       IN HorizontalDisp(h, adj_rect(rect, dx, 0, 0, 0), i + 1,
                         Append(shown, rect))

\* The child views of SpecLayout.
ChildViews ==
  {[class |-> "Display", len |-> l, min_width |-> w] :
     l \in 0 .. MaxText, w \in {0, MaxText + 1}}
  \cup {[class |-> "HFill", len |-> 0, min_width |-> 0]}

\* Horizontal(views, margin) and the Rect it is given; nothing measured or
\* painted yet.  The App around it is not running.
InitLayout ==
  /\ \E n \in 1 .. MaxViews, m \in 0 .. MaxMargin, w \in 0 .. MaxRect :
       \E views \in [1 .. n -> ChildViews] :
         layout = [views |-> views, margin |-> m,
                   rect |-> [x |-> 0, y |-> 0, w |-> w, h |-> 1],
                   measured |-> <<>>, shown |-> <<>>]
  /\ kind = <<>> /\ kids = <<>> /\ wst = <<>> /\ layers = <<>>
  /\ exit = FALSE /\ pc = "done" /\ screen = <<>>
  /\ ev = [key |-> None, propagating |-> TRUE, log |-> <<>>]

\* Horizontal.size(rect)
Measure ==
  /\ layout # <<>>
  /\ layout.measured = <<>>
  /\ layout' = [layout EXCEPT
                  !.measured = <<HorizontalSize(layout, layout.rect)>>]
  /\ UNCHANGED <<kind, kids, wst, layers, exit, pc, screen, ev>>

\* Horizontal.display(rect)
Paint ==
  /\ layout # <<>>
  /\ layout.measured # <<>>
  /\ layout.shown = <<>>
  /\ layout' = [layout EXCEPT
                  !.shown = HorizontalDisp(layout, layout.rect, 1, <<>>)]
  /\ UNCHANGED <<kind, kids, wst, layers, exit, pc, screen, ev>>

NextLayout == Measure \/ Paint

SpecLayout == InitLayout /\ [][NextLayout]_vars

(***************************************************************************)
(* Vocabulary of the properties.                                           *)
(***************************************************************************)

\* This step is one iteration of the run loop (not RunExit, not PushLayer).
Dispatched ==
  /\ pc = "run"
  /\ ~exit
  /\ ~(ev' = ev /\ wst' = wst /\ kind' = kind /\ Len(layers') = Len(layers) + 1)

\* The log says that on_event of o was called.
Visited(log, o) == \E i \in 1 .. Len(log) : log[i] = <<"on_event", o>>

\* The descendants of o, o included, in the current tree.
Under(o) == Subtree(AppState, o)

Focusable(o) == CanFocus(AppState, o)

\* C1: in every layer the focused control is the layer's root or a
\* focusable descendant of the root, and it is the root when the tree holds
\* no focusable control.
C1_FocusIsRootOrFocusable ==
  \A i \in 1 .. Len(layers) :
    LET l == layers[i]
    IN /\ l.focused \in Under(l.root)
       /\ l.focused = l.root \/ Focusable(l.focused)
       /\ (\A o \in Under(l.root) : ~Focusable(o)) => l.focused = l.root

\* A navigation key has just moved the focus of the base layer to a
\* focusable control below the root.
C1_Witness ==
  /\ ev.key \in {TAB, KEY_DOWN, KEY_RIGHT, SHIFT_TAB}
  /\ ~ev.propagating
  /\ \E i \in 1 .. Len(ev.log) : ev.log[i] = <<"focus", layers[1].focused>>
  /\ layers[1].focused # layers[1].root
  /\ Focusable(layers[1].focused)

\* C2: a SelectList keeps 0 <= scroll_offset <= max(0, N - H) and
\* scroll_offset <= index <= scroll_offset + H - 1, from its construction on.
C2_ScrollWindow ==
  \A o \in DOMAIN wst :
    kind[o] = "SelectList" =>
      LET w == wst[o]
      IN /\ 0 <= w.scroll_offset
         /\ w.scroll_offset <= Max(0, w.n - w.height)
         /\ w.scroll_offset <= w.index
         /\ w.index <= w.scroll_offset + w.height - 1

\* Down has just scrolled a list that is longer than its window.
C2_Witness ==
  /\ ev.key = KEY_DOWN
  /\ ~ev.propagating
  /\ kind[1] = "SelectList"
  /\ wst[1].scroll_offset > 0
  /\ wst[1].index = wst[1].scroll_offset + wst[1].height - 1
  /\ wst[1].n > wst[1].height

\* C3: an Edit keeps 0 <= cursor <= len(value).
C3_CursorInText ==
  \A o \in DOMAIN wst :
    kind[o] = "Edit" =>
      0 <= wst[o].cursor /\ wst[o].cursor <= Len(wst[o].value)

\* Key 127 has just shortened a text whose cursor was at its end.
C3_Witness ==
  /\ ev.key = ALT_BS
  /\ kind[1] = "Edit"
  /\ wst[1].cursor = Len(wst[1].value)
  /\ Len(wst[1].value) = MaxLen - 1

\* The selection a Combo, SelectList, DateCombo or SelectDate holds.
Selection(w) == IF "index" \in DOMAIN w THEN w.index ELSE w.value

\* The positions of the log that record a call of op.
Calls(log, op) == {i \in 1 .. Len(log) : log[i][1] = op}

\* C4: with a Combo or DateCombo focused in the base layer, Enter opens a
\* popup whose inner control holds the combo's selection; while the popup is
\* open, Enter closes it and gives the combo the popup's selection, Escape
\* closes it and leaves the combo as it is, and every other key leaves the
\* combo as it is, so that after Escape the combo holds what it held when
\* the popup was opened.
C4_PopupAcceptOrCancel ==
  [][Dispatched =>
       IF Len(layers) = 1
       THEN is_enter(ev'.key) =>
              /\ Len(layers') = 2
              /\ kind'[layers'[2].root] = "Popup"
              /\ layers'[2].focused = kids'[layers'[2].root][1]
              /\ Selection(wst'[layers'[2].focused]) = Selection(wst[1])
              /\ wst'[1] = wst[1]
       ELSE LET inner == kids[layers[2].root][1]
            IN IF is_enter(ev'.key)
               THEN Len(layers') = 1
                    /\ Selection(wst'[1]) = Selection(wst[inner])
               ELSE IF ev'.key = ESC
               THEN Len(layers') = 1 /\ wst'[1] = wst[1]
               ELSE Len(layers') = 2 /\ wst'[1] = wst[1]]_vars

\* Enter has just closed the popup of a Combo and given it the last choice.
C4_Witness ==
  /\ is_enter(ev.key)
  /\ Len(layers) = 1
  /\ Calls(ev.log, "on_close") # {}
  /\ kind[1] = "Combo"
  /\ wst[1].index = MaxChoices - 1

\* C5: Backspace (either code) in an Edit with cursor c > 0 removes the
\* character at position c-1 and leaves the cursor at c-1; with c = 0 it
\* changes neither the value nor the cursor.
C5_BackspaceRemovesBefore ==
  [][Dispatched /\ ev'.key \in {KEY_BACKSPACE, ALT_BS} /\ kind[1] = "Edit" =>
       LET v == wst[1].value
           c == wst[1].cursor
       IN IF c > 0
          THEN /\ wst'[1].value = SubSeq(v, 1, c - 1) \o SubSeq(v, c + 1, Len(v))
               /\ wst'[1].cursor = c - 1
          ELSE wst'[1] = wst[1]]_vars

\* C6: when a key bubbles to the Popup at the root of the top layer, Escape
\* calls on_close once with False and Enter calls it once with True, each
\* followed by one pop_layer that removes the top layer and nothing else;
\* any other key calls neither.
C6_PopupCallbackThenPop ==
  [][Dispatched /\ Len(layers) > 1
       /\ kind[layers[Len(layers)].root] = "Popup"
       /\ Visited(ev'.log, layers[Len(layers)].root) =>
       LET log == ev'.log
           closes == Calls(log, "on_close")
           pops == Calls(log, "pop_layer")
       IN IF ev'.key = ESC \/ is_enter(ev'.key)
          THEN /\ Cardinality(closes) = 1
               /\ Cardinality(pops) = 1
               /\ \A i \in closes :
                    /\ log[i][2] = (IF ev'.key = ESC THEN 0 ELSE 1)
                    /\ \A j \in pops : i < j
               /\ \A j \in pops : log[j][2] = layers[Len(layers)].root
               /\ layers' = SubSeq(layers, 1, Len(layers) - 1)
          ELSE closes = {} /\ pops = {} /\ Len(layers') = Len(layers)]_vars

\* Escape has just closed a popup: on_close(False), then pop_layer.
C6_Witness ==
  /\ ev.key = ESC
  /\ Len(layers) = 1
  /\ ~exit
  /\ \E i, j \in 1 .. Len(ev.log) :
       i < j /\ ev.log[i] = <<"on_close", 0>> /\ ev.log[j][1] = "pop_layer"

\* C7: when Escape reaches App.on_event, the App closes the top layer and
\* does not set exit if the stack holds more than one layer, and sets exit
\* if it holds the base layer only.
C7_EscapeClosesTopLayer ==
  [][Dispatched /\ ev'.key = ESC /\ Visited(ev'.log, AppId) =>
       IF Len(layers) > 1
       THEN ~exit' /\ layers' = SubSeq(layers, 1, Len(layers) - 1)
       ELSE exit']_vars

\* C8: with the base layer alone, Escape dispatched to the focused control
\* reaches the App and sets exit; once exit is set the run loop paints no
\* frame and reads no key, and returns.
C8_EscapeExits ==
  [][/\ Dispatched /\ Len(layers) = 1 /\ ev'.key = ESC =>
          exit' /\ Visited(ev'.log, AppId)
     /\ exit => /\ exit' /\ screen' = screen /\ ev' = ev /\ layers' = layers
                /\ wst' = wst /\ pc' = "done"]_vars

\* Escape on a root that cannot focus has ended the run loop.
C8_Witness ==
  /\ pc = "done"
  /\ exit
  /\ ev.key = ESC
  /\ Len(layers) = 1
  /\ layers[1].focused = layers[1].root
  /\ ~Focusable(layers[1].root)

\* C9: a Layer just built on a root focuses the first control that can focus
\* in depth-first pre-order (the root, then each child's whole subtree before
\* the next child), or the root when there is none.
C9_FocusFirstInPreOrder ==
  LET RECURSIVE PreOrder(_), PreOrderOf(_, _)
      PreOrder(o) == <<o>> \o PreOrderOf(kids[o], 1)
      PreOrderOf(children, i) ==
        IF i > Len(children) THEN <<>>
        ELSE PreOrder(children[i]) \o PreOrderOf(children, i + 1)
      order == PreOrder(layers[1].root)
      hits == {i \in 1 .. Len(order) : Focusable(order[i])}
  IN ev.key = None =>
       IF hits = {} THEN layers[1].focused = layers[1].root
       ELSE \E i \in hits : /\ \A j \in hits : i <= j
                            /\ layers[1].focused = order[i]

\* The keys a Panel and a Composite scan on.
ScanKeys(o) ==
  IF kind[o] = "Panel" THEN {KEY_UP, KEY_DOWN, TAB, SHIFT_TAB}
  ELSE IF kind[o] = "Composite" THEN {KEY_LEFT, KEY_RIGHT, TAB, SHIFT_TAB}
  ELSE {}

\* C10: when Down or Tab (Up or Shift-Tab) bubbles to a Panel from its child
\* at position p, the Panel focuses a control inside the nearest child after
\* (before) p that holds a focusable control and stops the event; when no
\* such child exists it focuses nothing and the event goes on to its parent.
\* The same for a Composite with Right or Tab (Left or Shift-Tab).
C10_ScanToNearest ==
  [][Dispatched =>
       LET log == ev'.log
       IN \A i \in 2 .. Len(log) :
            LET self == log[i][2]
                from == log[i - 1][2]
            IN log[i][1] = "on_event" /\ log[i - 1][1] = "on_event"
               /\ IsControl(self) /\ ev'.key \in ScanKeys(self) =>
                 LET controls == kids[self]
                     p == Index(controls, from)
                     back == ev'.key \in {KEY_UP, KEY_LEFT, SHIFT_TAB}
                     holds == {j \in 1 .. Len(controls) :
                                 /\ IF back THEN j < p ELSE j > p
                                 /\ \E o \in Under(controls[j]) : Focusable(o)}
                 IN /\ p > 0
                    /\ IF holds = {}
                       THEN /\ Len(log) > i
                            /\ log[i + 1] = <<"on_event",
                                              get_parent(AppState, self)>>
                       ELSE \E j \in holds :
                              /\ \A k \in holds :
                                   IF back THEN k <= j ELSE j <= k
                              /\ Len(log) = i + 2
                              /\ log[i + 1][1] = "focus"
                              /\ log[i + 2][1] = "stop"
                              /\ log[i + 1][2] \in Under(controls[j])
                              /\ Focusable(log[i + 1][2])
                              /\ layers'[Len(layers')].focused = log[i + 1][2]
                              /\ ~ev'.propagating]_vars

\* Tab has just moved the focus of a Panel past a child that holds nothing
\* focusable, to a later child.
C10_Witness ==
  /\ ev.key = TAB
  /\ ~ev.propagating
  /\ \E i \in 2 .. Len(ev.log) - 1 :
       LET self == ev.log[i][2]
       IN /\ ev.log[i][1] = "on_event"
          /\ ev.log[i + 1][1] = "focus"
          /\ kind[self] = "Panel"
          /\ \E a, b, c \in 1 .. Len(kids[self]) :
               /\ a < b /\ b < c
               /\ kids[self][a] = ev.log[i - 1][2]
               /\ \A o \in Under(kids[self][b]) : ~Focusable(o)
               /\ ev.log[i + 1][2] \in Under(kids[self][c])

\* C11: when Tab or Down (Shift-Tab or Up) reaches App.on_event, the focus of
\* the active layer becomes the first (last) control that can focus in
\* depth-first pre-order of the layer's root, and no other layer changes.
C11_AppResetsFocusInDocumentOrder ==
  [][Dispatched /\ Visited(ev'.log, AppId)
       /\ ev'.key \in {TAB, KEY_DOWN, SHIFT_TAB, KEY_UP} =>
       LET RECURSIVE PreOrder(_), PreOrderOf(_, _)
           PreOrder(o) == <<o>> \o PreOrderOf(kids[o], 1)
           PreOrderOf(children, i) ==
             IF i > Len(children) THEN <<>>
             ELSE PreOrder(children[i]) \o PreOrderOf(children, i + 1)
           top == Len(layers)
           order == PreOrder(layers[top].root)
           hits == {i \in 1 .. Len(order) : Focusable(order[i])}
           first == ev'.key \in {TAB, KEY_DOWN}
       IN /\ Len(layers') = top
          /\ \A l \in 1 .. top - 1 : layers'[l] = layers[l]
          /\ layers'[top].root = layers[top].root
          /\ IF hits = {} THEN layers'[top].focused = layers[top].focused
             ELSE \E i \in hits :
                    /\ \A j \in hits : IF first THEN i <= j ELSE j <= i
                    /\ layers'[top].focused = order[i]]_vars

\* C12: a dispatch in which a widget changed its state, opened a layer or
\* closed a layer ends with the event stopped; in particular Enter on a Combo
\* or DateCombo, and Enter or Escape in their Popup, leave propagating false.
C12_HandledKeyIsStopped ==
  [][Dispatched /\ (wst' # wst \/ kind' # kind \/ layers' # layers) =>
       ~ev'.propagating]_vars

\* C13: the Delete key in an Edit with cursor c removes the character at
\* position c (nothing when c = len(value)) and leaves the cursor at c.
C13_DeleteRemovesAtCursor ==
  [][Dispatched /\ ev'.key = DEL /\ kind[1] = "Edit" =>
       LET v == wst[1].value
           c == wst[1].cursor
       IN /\ wst'[1].value = SubSeq(v, 1, c) \o SubSeq(v, c + 2, Len(v))
          /\ wst'[1].cursor = c]_vars

\* C14: a printable key (32..126) dispatched to a focused Edit with value v
\* and cursor c gives value v[0..c) + the character + v[c..] and cursor c+1,
\* stops the event, and changes nothing else: no other widget, no layer, no
\* focus, and no other handler runs.
C14_PrintableKeyIsSpliced ==
  [][Dispatched /\ 32 <= ev'.key /\ ev'.key < 127
       /\ kind[layers[Len(layers)].focused] = "Edit" =>
       LET self == layers[Len(layers)].focused
           v == wst[self].value
           c == wst[self].cursor
       IN /\ wst' = [wst EXCEPT
                       ![self] = [value |-> SubSeq(v, 1, c) \o <<ev'.key>>
                                              \o SubSeq(v, c + 1, Len(v)),
                                  cursor |-> c + 1]]
          /\ ~ev'.propagating
          /\ ev'.log = <<<<"on_event", self>>, <<"stop", 0>>>>
          /\ kind' = kind /\ kids' = kids /\ layers' = layers
          /\ exit' = exit]_vars

\* A character has just been typed in the middle of a text.
C14_Witness ==
  /\ kind[1] = "Edit"
  /\ ev.key \in Chars(NumChars)
  /\ ~ev.propagating
  /\ wst[1].cursor >= 2
  /\ wst[1].cursor < Len(wst[1].value)
  /\ wst[1].value[wst[1].cursor] = ev.key
  /\ wst[1].value[1] # ev.key

\* C15: Enter (either code) dispatched to a focused Edit leaves the Edit's
\* value and cursor as they are and ends in the same layers, focus, widgets
\* and exit flag as Tab dispatched in the same state.
C15_EnterIsTab ==
  [][Dispatched /\ is_enter(ev'.key)
       /\ kind[layers[Len(layers)].focused] = "Edit" =>
       LET self == layers[Len(layers)].focused
           tab == dispatch_event(Event(TAB, 0))
       IN /\ wst'[self] = wst[self]
          /\ layers' = tab.layers
          /\ exit' = tab.exit
          /\ wst' = tab.wst
          /\ kind' = tab.kind
          /\ ev'.propagating = tab.propagating]_vars

\* Enter in an Edit has just moved the focus to another Edit.
C15_Witness ==
  /\ is_enter(ev.key)
  /\ ~ev.propagating
  /\ Len(ev.log) >= 4
  /\ kind[ev.log[1][2]] = "Edit"
  /\ ev.log[Len(ev.log) - 1][1] = "focus"
  /\ ev.log[Len(ev.log) - 1][2] # ev.log[1][2]
  /\ layers[1].focused = ev.log[Len(ev.log) - 1][2]

\* C16: in a SelectList, Up with index > 0 takes one from index and Down with
\* index < N-1 adds one, stopping the event; scroll_offset moves by exactly
\* one, and only when the new index is outside the window
\* scroll_offset .. scroll_offset + height - 1; Up at 0 and Down at N-1
\* change nothing and leave the event propagating.
C16_MoveByOneScrollByNeed ==
  [][Dispatched /\ kind[1] = "SelectList" /\ ev'.key \in {KEY_UP, KEY_DOWN} =>
       LET w == wst[1]
           up == ev'.key = KEY_UP
           moves == IF up THEN w.index > 0 ELSE w.index < w.n - 1
           index == IF up THEN w.index - 1 ELSE w.index + 1
           offset == IF index < w.scroll_offset THEN w.scroll_offset - 1
                     ELSE IF index > w.scroll_offset + w.height - 1
                          THEN w.scroll_offset + 1
                          ELSE w.scroll_offset
       IN IF moves
          THEN /\ wst'[1] = [w EXCEPT !.index = index,
                                      !.scroll_offset = offset]
               /\ ~ev'.propagating
          ELSE wst'[1] = w /\ ev'.propagating]_vars

\* SelectList of 3 choices and height 2: Down at the last choice, with the
\* window scrolled by one, has changed nothing.
C16_Witness ==
  /\ kind[1] = "SelectList"
  /\ ev.key = KEY_DOWN
  /\ ev.propagating
  /\ wst[1] = [n |-> 3, index |-> 2, height |-> 2, scroll_offset |-> 1]

\* The days a key adds to the date of a SelectDate according to C17.
DayShift(key) ==
  IF key = KEY_RIGHT THEN 1
  ELSE IF key = KEY_LEFT THEN 0 - 1
  ELSE IF key = KEY_DOWN THEN WeekDays
  ELSE IF key = KEY_UP THEN 0 - WeekDays
  ELSE 0

\* C17 as stated: every key changes the date of a SelectDate by its DayShift
\* (so a key sequence changes it by (#Right - #Left) + 7 * (#Down - #Up)),
\* and the four arrows stop the event.
C17_AnyKeyShiftsByArrows ==
  [][Dispatched /\ kind[1] = "SelectDate" =>
       /\ wst'[1].value = wst[1].value + DayShift(ev'.key)
       /\ DayShift(ev'.key) # 0 => ~ev'.propagating]_vars

\* C17 for every key but 't': the key changes the date by its DayShift, and
\* the four arrows stop the event.
C17_KeysButTodayShiftByArrows ==
  [][Dispatched /\ kind[1] = "SelectDate" /\ ev'.key # KEY_T =>
       /\ wst'[1].value = wst[1].value + DayShift(ev'.key)
       /\ DayShift(ev'.key) # 0 => ~ev'.propagating]_vars

\* Up has just taken the date a week back, to the first day of Days.
C17_Witness ==
  /\ kind[1] = "SelectDate"
  /\ ev.key = KEY_UP
  /\ ~ev.propagating
  /\ wst[1].value = MaxDay - WeekDays

\* C18: a Horizontal of n >= 1 views measured with child widths w1..wn and
\* margin m measures w1 + ... + wn + m * (n - 1) wide, and paints child k at
\* x offset w1 + ... + w(k-1) + m * (k - 1) from its origin, so that the last
\* child ends at the measured width.
C18_PaintedAsMeasured ==
  layout # <<>> /\ layout.shown # <<>> =>
    LET n == Len(layout.views)
        m == layout.margin
        w == layout.measured[1].widths
        before(k) == Sum(SubSeq(w, 1, k - 1), 1) + m * (k - 1)
    IN /\ layout.measured[1].size[1] = Sum(w, 1) + m * (n - 1)
       /\ \A k \in 1 .. n : layout.shown[k].x = layout.rect.x + before(k)
       /\ layout.shown[n].x + w[n]
            = layout.rect.x + layout.measured[1].size[1]

\* The targets of the on_event calls of a log, in the order of the calls.
RECURSIVE Targets(_, _)
Targets(log, i) ==
  IF i > Len(log) THEN <<>>
  ELSE IF log[i][1] = "on_event" THEN <<log[i][2]>> \o Targets(log, i + 1)
  ELSE Targets(log, i + 1)

\* C19: one dispatch calls on_event on the focused control of the active
\* layer first and then on the parent of the control called before, up
\* through the Layer to the App, no object twice; after a call of stop no
\* handler is called and the event ends not propagating; the calls end only
\* after a stop, at the App, or at an object that is no longer in the App's
\* tree, so the dispatch ends after at most one call per object.
C19_BubblesChildToParent ==
  [][Dispatched =>
       LET log == ev'.log
           chain == Targets(log, 1)
           k == Len(chain)
           stops == Calls(log, "stop")
       IN /\ k >= 1
          /\ chain[1] = layers[Len(layers)].focused
          /\ \A j \in 1 .. k - 1 : chain[j + 1] = get_parent(AppState, chain[j])
          /\ \A i, j \in 1 .. k : i < j => chain[i] # chain[j]
          /\ k <= Cardinality(DOMAIN kind) + Len(layers) + 1
          /\ \A i \in stops : \A j \in Calls(log, "on_event") : j < i
          /\ ev'.propagating = (stops = {})
          /\ \/ stops # {}
             \/ chain[k] = AppId
             \/ get_parent(AppState', chain[k]) = None]_vars

\* A key has bubbled from an Edit two levels deep to the root Panel, which
\* stopped it: the Layer and the App were never called.
C19_Witness ==
  /\ ~ev.propagating
  /\ Len(layers) = 1
  /\ LET chain == Targets(ev.log, 1)
     IN /\ Len(chain) = 3
        /\ kind[chain[1]] = "Edit"
        /\ chain[3] = layers[1].root
        /\ kind[chain[3]] = "Panel"

\* The positions of the children of container o beyond position p in the
\* direction of the scan that hold a control that can focus.
Eligible(o, p, back) ==
  {j \in 1 .. Len(kids[o]) :
     /\ IF back THEN j < p ELSE j > p
     /\ \E c \in Under(kids[o][j]) : Focusable(c)}

\* C20: when a key that both scan on bubbles from a child of an inner Panel
\* or Composite through it to the outer Panel or Composite holding it, the
\* inner one had no eligible child beyond that child, and the outer one scans
\* from its child that is the inner container: the focus moves into the
\* nearest eligible child of the outer container beyond the inner one, outside
\* the inner container, and the event is stopped; if there is none the outer
\* container focuses nothing and the event goes on to its parent.  The focus
\* never lands in a child the inner container scanned.
C20_OuterContinuesScan ==
  [][Dispatched =>
       LET log == ev'.log
           key == ev'.key
           back == key \in {KEY_UP, KEY_LEFT, SHIFT_TAB}
           focused == layers'[Len(layers')].focused
       IN \A i \in 3 .. Len(log) :
            LET from == log[i - 2][2]
                inner == log[i - 1][2]
                outer == log[i][2]
            IN (/\ \A d \in 0 .. 2 : log[i - d][1] = "on_event"
                /\ IsControl(outer)
                /\ key \in ScanKeys(inner) \cap ScanKeys(outer)) =>
                 LET p == Index(kids[inner], from)
                     q == Index(kids[outer], inner)
                     scanned == {j \in 1 .. Len(kids[inner]) :
                                   IF back THEN j < p ELSE j > p}
                     beyond == Eligible(outer, q, back)
                 IN /\ p > 0 /\ q > 0
                    /\ Eligible(inner, p, back) = {}
                    /\ \A j \in scanned : focused \notin Under(kids[inner][j])
                    /\ IF beyond = {}
                       THEN /\ Len(log) > i
                            /\ log[i + 1] = <<"on_event",
                                              get_parent(AppState, outer)>>
                       ELSE /\ ~ev'.propagating
                            /\ focused \notin Under(inner)
                            /\ Focusable(focused)
                            /\ \E j \in beyond :
                                 /\ \A n \in beyond :
                                      IF back THEN n <= j ELSE j <= n
                                 /\ focused \in Under(kids[outer][j])]_vars

\* Tab has bubbled from an Edit through its Panel to the outer Panel, which
\* moved the focus to a later child of its own.
C20_Witness ==
  /\ ev.key = TAB
  /\ ~ev.propagating
  /\ LET chain == Targets(ev.log, 1)
     IN /\ Len(chain) = 3
        /\ kind[chain[1]] = "Edit"
        /\ kind[chain[2]] = "Panel"
        /\ kind[chain[3]] = "Panel"
        /\ layers[1].focused \notin Under(chain[2])
        /\ Focusable(layers[1].focused)

\* C21: with a Popup at the root of the top layer, dispatching Escape or
\* Enter calls on_event of the popup's inner control and of the Popup and of
\* nothing else: App.on_event is not called and exit stays False.  No handler
\* stopped the event; the calls end because the Popup, whose layer has been
\* popped, is the root of no layer and has no parent in the App's tree.
C21_PopupEndsBubbling ==
  [][(/\ Dispatched
      /\ kind[layers[Len(layers)].root] = "Popup"
      /\ (ev'.key = ESC \/ is_enter(ev'.key))) =>
       LET popup == layers[Len(layers)].root
       IN /\ ~exit'
          /\ ~Visited(ev'.log, AppId)
          /\ Targets(ev'.log, 1) = <<kids[popup][1], popup>>
          /\ ev'.propagating
          /\ Calls(ev'.log, "stop") = {}
          /\ \A i \in 1 .. Len(layers') : layers'[i].root # popup
          /\ get_parent(AppState', popup) = None]_vars

\* Escape has just closed a popup that was open over two layers: the last
\* handler called was the one of the Popup, now gone, and the App runs on.
C21_Witness ==
  /\ ev.key = ESC
  /\ ~exit
  /\ pc = "run"
  /\ Len(layers) = 2
  /\ ev.propagating
  /\ LET chain == Targets(ev.log, 1)
     IN /\ Len(chain) = 2
        /\ chain[2] \notin DOMAIN kind
        /\ \A i \in 1 .. 2 : kind[layers[i].focused] \in {"Combo", "DateCombo"}

\* C22: Enter dispatched to a focused Combo or DateCombo with no popup open
\* pushes one layer on top of the unchanged stack; its root is a new Popup
\* that reports to that combo and its focus is the Popup's inner control.
\* While a popup is open, a key other than Escape and Enter leaves every
\* layer beneath it, and the popup's layer, as it is.  Escape and Enter remove
\* the popup's layer and nothing else, so the stack is the one before the
\* popup was opened and its top layer has the opening combo focused.  No
\* dispatch adds a layer in any other way.
C22_PopupLayerFrame ==
  [][Dispatched =>
       LET n == Len(layers)
           top == layers[n]
           beneath == SubSeq(layers, 1, n - 1)
       IN IF kind[top.root] = "Popup"
          THEN /\ n > 1
               /\ layers[n - 1].focused = wst[top.root].on_close
               /\ kind[layers[n - 1].focused] \in {"Combo", "DateCombo"}
               /\ IF ev'.key = ESC \/ is_enter(ev'.key)
                  THEN /\ layers' = beneath
                       /\ layers'[n - 1].focused = wst[top.root].on_close
                       /\ kind'[layers'[n - 1].focused] \in {"Combo", "DateCombo"}
                  ELSE /\ Len(layers') = n
                       /\ SubSeq(layers', 1, n - 1) = beneath
                       /\ layers'[n] = top
          ELSE IF is_enter(ev'.key) /\ kind[top.focused] \in {"Combo", "DateCombo"}
          THEN /\ Len(layers') = n + 1
               /\ SubSeq(layers', 1, n) = layers
               /\ Cardinality(Calls(ev'.log, "push_layer")) = 1
               /\ LET popup == layers'[n + 1].root
                  IN /\ popup \notin DOMAIN kind
                     /\ kind'[popup] = "Popup"
                     /\ wst'[popup].on_close = top.focused
                     /\ Len(kids'[popup]) = 1
                     /\ layers'[n + 1].focused = kids'[popup][1]
                     /\ kind'[kids'[popup][1]] \in {"SelectList", "SelectDate"}
          ELSE /\ Len(layers') = n
               /\ Calls(ev'.log, "push_layer") = {}]_vars

\* Enter has just closed a popup that a DateCombo in the second layer had
\* opened: two layers are left, the DateCombo focused in the top one and the
\* Combo of the base layer still focused beneath.
C22_Witness ==
  /\ ev.key = KEY_ENTER
  /\ Calls(ev.log, "on_close") # {}
  /\ Calls(ev.log, "pop_layer") # {}
  /\ Len(layers) = 2
  /\ kind[layers[1].focused] = "Combo"
  /\ kind[layers[2].focused] = "DateCombo"
  /\ \A o \in DOMAIN kind : kind[o] # "Popup"

=============================================================================
